---- MODULE Spec2Model ----
(***************************************************************************)
(* Process Watcher: the process-collection engine of                       *)
(* src/src/process_collector.py (ProcessInfo, ProcessCollector).           *)
(*                                                                         *)
(* Modelling conventions                                                   *)
(*  - Python None is the reserved string None; no process name, user or    *)
(*    error message of the model equals it.                                *)
(*  - A dict produced by ProcessInfo.to_dict is a TLA+ record with exactly *)
(*    the eight keys of the dict.  A ProcessInfo object is a record that   *)
(*    carries the extra field "class"; the value None returned by a        *)
(*    function that falls off its end is NoneObject.                       *)
(*  - cpu_percent and memory_megabyte are integers counting thousandths;   *)
(*    round(x, 2) makes them multiples of ten.                             *)
(*  - An exception is a record [type, msg]; msg is what str(e) returns.    *)
(*  - The operating system (the /proc table, ps, PowerShell, psutil) is    *)
(*    the environment: every answer it can give is an input drawn from a   *)
(*    small set by the action that makes the call.                         *)
(***************************************************************************)
EXTENDS Integers, Sequences, FiniteSets, TLC

\* ------------------------------------------------------------------ bounds
\* PIDs of the model are 1..MaxPid.
MaxPid == 3
\* max_processes arguments are 0..MaxLimit (0 is "no limit": the guard > 0).
MaxLimit == 2

PIDS == 1..MaxPid
\* A directory entry or an output line that is not a decimal PID.
NotAPid == 0
\* Lines that the Windows branch of _get_pid_list skips ([3:]).
WinSkip == 3
\* Lines that the macOS branch of _get_pid_list skips ([1:]).
MacSkip == 1

None == "<None>"
NoneObject == [class |-> "NoneType"]

Platforms == {"linux", "darwin", "win32", "freebsd"}

Min(a, b) == IF a < b THEN a ELSE b

\* ------------------------------------------------------------ Python bits
\* self.os.startswith('linux')
IsLinux(p) == p = "linux"
\* self.os == 'darwin'
IsDarwin(p) == p = "darwin"
\* 'win' in self.os          ('darwin' contains 'win' as well)
HasWin(p) == p \in {"win32", "darwin"}

\* truth value of an Optional[str]
Truthy(s) == s # None /\ s # ""

Exc(t, m) == [type |-> t, msg |-> m]

\* f"pid_{pid}"
PidPlaceholder(pid) == "pid_" \o ToString(pid)

\* round(x, 2) on thousandths; ties go to the even hundredth.
Round2(x) ==
  LET q == x \div 10
      r == x % 10
  IN  IF r < 5 THEN 10 * q
      ELSE IF r > 5 THEN 10 * (q + 1)
      ELSE IF q % 2 = 0 THEN 10 * q ELSE 10 * (q + 1)

\* ------------------------------------------------------------ ProcessInfo
DictKeys == {"pid", "name", "user", "cpu_percent", "memory_megabyte",
             "status", "accessible", "error"}

\* ProcessInfo.__init__
ProcessInfo(pid) ==
  [class |-> "ProcessInfo", pid |-> pid, name |-> None, user |-> None,
   cpu_percent |-> 0, memory_megabyte |-> 0, status |-> None,
   accessible |-> TRUE, error |-> None]

\* ProcessInfo.to_dict; a numeric attribute may hold None (-1 in the model).
NoNumber == -1
to_dict(p) ==
  [pid |-> p.pid, name |-> p.name, user |-> p.user,
   cpu_percent |-> IF p.cpu_percent # NoNumber THEN Round2(p.cpu_percent) ELSE 0,
   memory_megabyte |-> IF p.memory_megabyte # NoNumber
                       THEN Round2(p.memory_megabyte) ELSE 0,
   status |-> p.status, accessible |-> p.accessible, error |-> p.error]

IsDict(v) == "class" \notin DOMAIN v
IsProcessInfoObject(v) == "class" \in DOMAIN v /\ v.class = "ProcessInfo"

\* ------------------------------------------------------------ enumeration
RECURSIVE InsertDesc(_, _)
InsertDesc(x, s) ==
  IF s = <<>> THEN <<x>>
  ELSE IF x >= Head(s) THEN <<x>> \o s
  ELSE <<Head(s)>> \o InsertDesc(x, Tail(s))

\* sorted(pids) without reverse=True: ascending order.
RECURSIVE SortedReverse_ascending(_)
SortedReverse_ascending(s) ==
  IF s = <<>> THEN <<>>
  ELSE LET rest == SortedReverse_ascending(Tail(s))
           lo   == SelectSeq(rest, LAMBDA y : y < Head(s))
           hi   == SelectSeq(rest, LAMBDA y : y >= Head(s))
       IN  lo \o <<Head(s)>> \o hi

\* sorted(pids, reverse=True)
RECURSIVE SortedReverse(_)
SortedReverse(s) ==
  IF s = <<>> THEN <<>> ELSE InsertDesc(Head(s), SortedReverse(Tail(s)))

\* s[n:]
DropFirst(s, n) == IF n >= Len(s) THEN <<>> ELSE SubSeq(s, n + 1, Len(s))
\* s[:n], n > 0
TakeFirst(s, n) == SubSeq(s, 1, Min(n, Len(s)))

IsPidToken(t) == t # NotAPid

\* What the listing mechanism answers: the entries of /proc or the lines of
\* the subprocess output in source order, the exit status, and the entry at
\* which the mechanism raises (0: it does not raise).
\*   linux : the iteration over /proc raises while entry failAt is handled
\*   others: subprocess.run raises (failAt # 0) and no line is read
_get_pid_list(p, src) ==
  LET lines == src.entries
      read  ==
        IF IsDarwin(p) THEN
          IF src.failAt # 0 \/ src.returncode # 0 THEN <<>>
          ELSE SelectSeq(DropFirst(lines, MacSkip), IsPidToken)
        ELSE IF IsLinux(p) THEN
          SelectSeq(IF src.failAt # 0 THEN SubSeq(lines, 1, src.failAt - 1)
                    ELSE lines, IsPidToken)
        ELSE IF HasWin(p) THEN
          IF src.failAt # 0 \/ src.returncode # 0 THEN <<>>
          ELSE SelectSeq(DropFirst(lines, WinSkip), IsPidToken)
        ELSE <<>>
  IN  SortedReverse(read)

\* The listing mechanism failed: it raised, or the subprocess exited non-zero.
EnumerationFailed(p, src) ==
  \/ IsLinux(p) /\ src.failAt # 0
  \/ (IsDarwin(p) \/ HasWin(p)) /\ (src.failAt # 0 \/ src.returncode # 0)

\* ------------------------------------------------------------ CPU sampler
\* What psutil answers for one process.
CpuStates == {"running", "stopped", "NoSuchProcess"}
\* proc.cpu_percent(interval) readings and len(cpu_affinity()) values.
CpuReading == 3008
AffinityCount == 2

\* _get_cpu_usage: psutil.NoSuchProcess and psutil.AccessDenied are caught.
_get_cpu_usage(cpu) ==
  IF cpu = "running" THEN CpuReading \div AffinityCount
  ELSE 0

\* ------------------------------------------------- metric source: Linux
\* _read_proc_status: the file is missing or unreadable (None), or it is
\* parsed into a dict of its "key: value" lines.
_read_proc_status(env) ==
  IF env.status \in {"missing", "unreadable"} THEN [isNone |-> TRUE, info |-> <<>>]
  ELSE IF env.status = "empty" THEN [isNone |-> FALSE, info |-> <<>>]
  ELSE IF env.status = "noName" THEN [isNone |-> FALSE, info |-> [State |-> env.state]]
  ELSE IF env.status = "noState" THEN [isNone |-> FALSE, info |-> [Name |-> env.name]]
  ELSE [isNone |-> FALSE, info |-> [Name |-> env.name, State |-> env.state]]

\* str(e) of the exceptions psutil and the interpreter raise.
ExcOf(kind) ==
  IF kind = "PermissionError" THEN Exc(kind, "[Errno 13] Permission denied")
  ELSE IF kind = "AccessDenied" THEN Exc(kind, "psutil.AccessDenied")
  ELSE IF kind = "NoSuchProcess" THEN Exc(kind, "psutil.NoSuchProcess")
  ELSE IF kind = "TimeoutExpired" THEN Exc(kind, "Command timed out after 5 seconds")
  ELSE IF kind = "JSONDecodeError" THEN Exc(kind, "Expecting value: line 1 column 1 (char 0)")
  ELSE Exc(kind, "")

\* The except clauses of _get_process_info_linux.
LinuxExcept(process, e) ==
  IF e.type = "PermissionError"
  THEN [process EXCEPT !.accessible = FALSE, !.error = "Permission denied"]
  ELSE [process EXCEPT !.accessible = FALSE, !.error = e.msg]

_get_process_info_linux(pid, env) ==
  LET process   == ProcessInfo(pid)
      stat_data == _read_proc_status(env)
  IN
  IF stat_data.isNone \/ DOMAIN stat_data.info = {} THEN
    \* early return of the object itself, not of process.to_dict()
    [process EXCEPT !.accessible = FALSE, !.error = "Cannot read /proc/pid/stat"]
  ELSE IF "Name" \notin DOMAIN stat_data.info THEN
    to_dict(LinuxExcept(process, Exc("KeyError", "'Name'")))
  ELSE
    LET p1 == [process EXCEPT !.name = stat_data.info.Name] IN
    IF "State" \notin DOMAIN stat_data.info THEN
      to_dict(LinuxExcept(p1, Exc("KeyError", "'State'")))
    ELSE
      LET p2 == [p1 EXCEPT !.status = stat_data.info.State] IN
      IF env.username # "ok" THEN to_dict(LinuxExcept(p2, ExcOf(env.username)))
      ELSE
        LET p3 == [p2 EXCEPT !.user = env.user,
                             !.cpu_percent = _get_cpu_usage(env.cpu)] IN
        IF env.memory # "ok" THEN to_dict(LinuxExcept(p3, ExcOf(env.memory)))
        ELSE to_dict([p3 EXCEPT !.memory_megabyte = env.rss])

\* ------------------------------------------------- metric source: macOS
\* A line of ps output after split(): its number of fields, and the fields;
\* pid is NotAPid when int(fields[0]) raises ValueError.
MacHeader == [n |-> 5, pid |-> NotAPid, user |-> "USER", cpu |-> 0, mem |-> 0, stat |-> "STAT"]

_get_process_info_macos(pid, env) ==
  LET proc_info == ProcessInfo(pid)
      deny(p, msg) == [p EXCEPT !.accessible = FALSE, !.error = msg]
      lines == env.stdout
  IN
  IF env.raises # "none" THEN
    deny(proc_info, "Unexpected error: " \o ExcOf(env.raises).msg)
  ELSE IF env.returncode # 0 \/ lines = <<>> THEN
    deny(proc_info, "Process not found or permission denied")
  ELSE IF Len(lines) < 2 THEN deny(proc_info, "Invalid ps output")
  ELSE
    LET fields == lines[2] IN
    IF fields.n < 5 THEN deny(proc_info, "Invalid ps output format")
    ELSE IF fields.pid = NotAPid THEN
      deny(proc_info, "Unexpected error: invalid literal for int() with base 10")
    ELSE
      LET p1 == [proc_info EXCEPT !.pid = fields.pid, !.user = fields.user,
                                  !.cpu_percent = fields.cpu,
                                  !.memory_megabyte = fields.mem,
                                  !.status = fields.stat] IN
      \* proc_info.command: ProcessInfo defines no such attribute
      IF "command" \in DOMAIN p1
      THEN [p1 EXCEPT !.name = IF Truthy(p1.command) THEN p1.command
                               ELSE PidPlaceholder(pid)]
      ELSE deny(p1, "Unexpected error: 'ProcessInfo' object has no attribute 'command'")

\* ----------------------------------------------- metric source: Windows
_get_process_info_windows(pid, env) ==
  LET process == ProcessInfo(pid)
      deny(p, msg) == [p EXCEPT !.accessible = FALSE, !.error = msg]
      noName(p) == IF ~Truthy(p.name)
                   THEN deny(p, "Unable to retrieve process information")
                   ELSE p
  IN
  IF env.raises # "none" THEN to_dict(deny(process, ExcOf(env.raises).msg))
  ELSE IF env.returncode = 0 /\ env.stdout # "" THEN
    IF env.stdout = "notjson"
    THEN to_dict(deny(process, ExcOf("JSONDecodeError").msg))
    ELSE to_dict(noName([process EXCEPT !.accessible = TRUE,
                                        !.name = env.Name,
                                        !.user = env.User,
                                        !.status = "Running",
                                        !.cpu_percent = _get_cpu_usage(env.cpu),
                                        !.memory_megabyte = env.Memory]))
  ELSE to_dict(noName(process))

\* ----------------------------------------------------- get_process_info
get_process_info(p, pid, env) ==
  IF IsLinux(p) THEN _get_process_info_linux(pid, env)
  ELSE IF IsDarwin(p) THEN _get_process_info_macos(pid, env)
  ELSE IF HasWin(p) THEN _get_process_info_windows(pid, env)
  ELSE NoneObject

\* ------------------------------------------------ environment answers
\* Each set lists the answers that lead to different results.
LinuxEnv(status, username, cpu, memory, rss) ==
  [status |-> status, name |-> "bash", state |-> "S (sleeping)", user |-> "root",
   username |-> username, cpu |-> cpu, memory |-> memory, rss |-> rss]

LinuxEnvs ==
  {LinuxEnv(st, "ok", "running", "ok", 512) :
     st \in {"missing", "unreadable", "empty", "noName", "noState"}}
  \cup {LinuxEnv("ok", u, "running", "ok", 512) :
          u \in {"PermissionError", "AccessDenied", "MemoryError"}}
  \cup {LinuxEnv("ok", "ok", "running", "NoSuchProcess", 512)}
  \cup {LinuxEnv("ok", "ok", c, "ok", 512) : c \in CpuStates}
  \cup {LinuxEnv("ok", "ok", "running", "ok", 2046)}

MacLines(pid) ==
  {[n |-> 2, pid |-> pid, user |-> "root", cpu |-> 0, mem |-> 0, stat |-> ""],
   [n |-> 5, pid |-> NotAPid, user |-> "root", cpu |-> 1200, mem |-> 300, stat |-> "S"],
   [n |-> 5, pid |-> pid, user |-> "root", cpu |-> 1200, mem |-> 300, stat |-> "S"]}

MacEnvs(pid) ==
  [raises : {"none", "TimeoutExpired"}, returncode : {0, 1},
   stdout : {<<>>, <<MacHeader>>} \cup {<<MacHeader, l>> : l \in MacLines(pid)}]

WinEnv(raises, returncode, stdout, name, memory, cpu) ==
  [raises |-> raises, returncode |-> returncode, stdout |-> stdout,
   Name |-> name, User |-> "admin", Memory |-> memory, cpu |-> cpu]

WinEnvs ==
  {WinEnv(r, 0, "object", "svchost", 20480, "running") :
     r \in {"TimeoutExpired", "MemoryError"}}
  \cup {WinEnv("none", 1, "", None, NoNumber, "NoSuchProcess"),
        WinEnv("none", 0, "", None, NoNumber, "NoSuchProcess"),
        WinEnv("none", 0, "notjson", None, NoNumber, "NoSuchProcess"),
        WinEnv("none", 0, "object", None, NoNumber, "NoSuchProcess"),
        WinEnv("none", 0, "object", "", 20480, "running"),
        WinEnv("none", 0, "object", "svchost", NoNumber, "stopped"),
        WinEnv("none", 0, "object", "svchost", 20480, "running")}

Envs(p, pid) ==
  IF IsLinux(p) THEN LinuxEnvs
  ELSE IF IsDarwin(p) THEN MacEnvs(pid)
  ELSE IF HasWin(p) THEN WinEnvs
  ELSE {[none |-> TRUE]}

\* ------------------------------------------------ the listing mechanism
Tokens == {NotAPid} \cup PIDS
ListLen == MaxPid + WinSkip

\* The OS lists every live process once.
NoRepeatedPid(l) ==
  \A a, b \in DOMAIN l : (a # b /\ l[a] # NotAPid) => l[a] # l[b]

Listings ==
  UNION {{l \in [1..n -> Tokens] : NoRepeatedPid(l)} : n \in 0..ListLen}

Sources ==
  {src \in [entries : Listings, failAt : 0..ListLen, returncode : {0, 1}] :
     src.failAt <= IF Len(src.entries) = 0 THEN 1 ELSE Len(src.entries)}

\* What _get_pid_list can return on platform p, with whether the mechanism
\* failed, over all answers of the listing mechanism.
PidListOutcomes ==
  [p \in Platforms |->
     {[pids |-> _get_pid_list(p, src), failed |-> EnumerationFailed(p, src)] :
        src \in Sources}]

\* ---------------------------------------------------- collect_processes
\* The local variables the loop updates.
Locals(procs, denied, acc, den) ==
  [processes |-> procs, denied_processes |-> denied,
   accessible_count |-> acc, denied_count |-> den]

\* pids[:max_processes + 1]: one PID too many.
Truncate_one_more(all_pids, max) ==
  IF max > 0 THEN TakeFirst(all_pids, max + 1) ELSE all_pids

\* pids = self._get_pid_list(); if max_processes > 0: pids = pids[:max_processes]
Truncate(all_pids, max) ==
  IF max > 0 THEN TakeFirst(all_pids, max) ELSE all_pids

\* The value of proc_info.get(...): only a dict has the method.
NoGet(proc_info) ==
  Exc("AttributeError",
      IF IsProcessInfoObject(proc_info)
      THEN "'ProcessInfo' object has no attribute 'get'"
      ELSE "'NoneType' object has no attribute 'get'")

\* The body of the try statement of one loop iteration.
TryBranch(proc_info, pid, include, st) ==
  IF ~IsDict(proc_info) THEN [raised |-> TRUE, exc |-> NoGet(proc_info), st |-> st]
  ELSE IF proc_info.accessible THEN
    [raised |-> FALSE, exc |-> Exc("", ""),
     st |-> [st EXCEPT !.processes = Append(@, proc_info),
                       !.accessible_count = @ + 1]]
  ELSE
    [raised |-> FALSE, exc |-> Exc("", ""),
     st |-> [st EXCEPT
               !.denied_count = @ + 1,
               !.denied_processes =
                  IF include
                  THEN Append(@, [pid |-> pid, error |-> proc_info.error,
                                  name |-> IF Truthy(proc_info.name)
                                           THEN proc_info.name
                                           ELSE PidPlaceholder(pid)])
                  ELSE @]]

\* except KeyError: any other exception leaves the loop.
Catches_only_KeyError(e) == e.type = "KeyError"

\* except Exception as e: every exception class of the model derives from it.
ExceptionClasses ==
  {"AttributeError", "KeyError", "PermissionError", "AccessDenied",
   "NoSuchProcess", "TimeoutExpired", "JSONDecodeError", "MemoryError"}
Catches(e) == e.type \in ExceptionClasses

\* The except clause without denied_count += 1.
ExceptBranch_no_count(e, pid, include, st) ==
  [st EXCEPT
     !.denied_processes =
        IF include
        THEN Append(@, [pid |-> pid, error |-> e.msg, name |-> PidPlaceholder(pid)])
        ELSE @]

\* The except clause without the denied_processes.append.
ExceptBranch_no_detail(e, pid, include, st) ==
  [st EXCEPT !.denied_count = @ + 1]

\* The except clause of one loop iteration.
ExceptBranch(e, pid, include, st) ==
  [st EXCEPT
     !.denied_count = @ + 1,
     !.denied_processes =
        IF include
        THEN Append(@, [pid |-> pid, error |-> e.msg, name |-> PidPlaceholder(pid)])
        ELSE @]

\* One iteration of the loop over pids.
LoopBody(proc_info, pid, include, st) ==
  LET t == TryBranch(proc_info, pid, include, st) IN
  IF ~t.raised THEN [aborted |-> FALSE, st |-> t.st]
  ELSE IF Catches(t.exc)
       THEN [aborted |-> FALSE, st |-> ExceptBranch(t.exc, pid, include, st)]
       ELSE [aborted |-> TRUE, st |-> st]

\* access_info['denied_details'] assigned without the test.
BuildAccessInfo_always_details(ps, st, include) ==
  [total_found_process |-> Len(ps),
   accessible_processes |-> st.accessible_count,
   permission_denied |-> st.denied_count,
   denied_details |-> st.denied_processes]

\* access_info, with the optional key denied_details
BuildAccessInfo(ps, st, include) ==
  IF include /\ st.denied_processes # <<>>
  THEN [total_found_process |-> Len(ps),
        accessible_processes |-> st.accessible_count,
        permission_denied |-> st.denied_count,
        denied_details |-> st.denied_processes]
  ELSE [total_found_process |-> Len(ps),
        accessible_processes |-> st.accessible_count,
        permission_denied |-> st.denied_count]

\* ------------------------------------------------- ProcessCollector.__init__
\* A Python int of memory size: kib * 1024 + b bytes (8 GiB is beyond the
\* integers TLC computes with).
Bytes(kib, b) == [kib |-> kib, b |-> b]
KiBPerGiB == 1024 * 1024

\* 8 * 1024 * 1024 * 1024
DefaultTotalMemory == Bytes(8 * KiBPerGiB, 0)

\* 'win' in self.os.lower(), reached after the 'darwin' and 'linux' tests
MemIsWin(p) == p = "win32"

\* _get_total_memory.  The answer of the probe:
\*   raises     the subprocess call or open() raises
\*   returncode exit status of sysctl (darwin)
\*   output     "value": the expected text with a number; "malformed": text
\*              that int()/float() or the split rejects; "nothing": no
\*              MemTotal line (linux)
\*   reading    darwin: bytes / 1024; linux: the kB figure; windows: the GB
\*              figure in thousandths
_get_total_memory(p, env) ==
  IF IsDarwin(p) THEN
    IF env.raises THEN DefaultTotalMemory
    ELSE IF env.returncode = 0 THEN
      IF env.output = "value" THEN Bytes(env.reading, 0) ELSE DefaultTotalMemory
    ELSE NoneObject                \* no return statement is reached
  ELSE IF IsLinux(p) THEN
    IF env.raises THEN DefaultTotalMemory
    ELSE IF env.output = "value" THEN Bytes(env.reading, 0)   \* kB * 1024
    ELSE IF env.output = "malformed" THEN DefaultTotalMemory
    ELSE NoneObject                \* the loop ends without a MemTotal line
  ELSE IF MemIsWin(p) THEN
    \* the inner except prints and falls through to the end of the function
    IF env.raises \/ env.output # "value" THEN NoneObject
    ELSE Bytes(0, env.reading \div 1000)      \* int(float(stdout)): whole GB
  ELSE Bytes(0, 0)                 \* unsupported platform: return 0

\* psutil.cpu_count() or 1
CpuCountOr1(reading) == IF reading = NoNumber \/ reading = 0 THEN 1 ELSE reading

MemEnv(raises, returncode, output, reading) ==
  [raises |-> raises, returncode |-> returncode, output |-> output,
   reading |-> reading]

\* What the host answers to the constructor: the memory probe and
\* psutil.cpu_count().
Hosts(p) ==
  IF MemIsWin(p) THEN
    {[mem |-> MemEnv(FALSE, 0, "value", 15880), cpus |-> 4],
     [mem |-> MemEnv(FALSE, 0, "value", 500), cpus |-> 4],
     [mem |-> MemEnv(FALSE, 0, "malformed", 0), cpus |-> 4],
     [mem |-> MemEnv(TRUE, 0, "nothing", 0), cpus |-> 4]}
  ELSE IF IsDarwin(p) \/ IsLinux(p) THEN
    {[mem |-> MemEnv(FALSE, 0, "value", 16 * KiBPerGiB), cpus |-> 4],
     [mem |-> MemEnv(FALSE, 0, "malformed", 0), cpus |-> NoNumber],
     [mem |-> MemEnv(FALSE, 1, "nothing", 0), cpus |-> 4],
     [mem |-> MemEnv(FALSE, 0, "nothing", 0), cpus |-> 4],
     [mem |-> MemEnv(TRUE, 0, "nothing", 0), cpus |-> NoNumber]}
  ELSE
    {[mem |-> MemEnv(FALSE, 0, "nothing", 0), cpus |-> 4],
     [mem |-> MemEnv(FALSE, 0, "nothing", 0), cpus |-> NoNumber]}

\* ------------------------------------------------------- OutputFormatter
\* JSON text is a sequence of tokens.  A token has a kind, a string and a
\* number; punctuation between members carries no information and is left out.
\*   "{" "}" "[" "]"   kind "punct"
\*   a member name     kind "key"
\*   a string          kind "str"      a number   kind "num"
\*   null              kind "null"     true/false kind "bool"
\*   an object that is not looked into (the system summary)  kind "obj"
Tok(k, s, n) == [k |-> k, s |-> s, n |-> n]
Punct(s) == Tok("punct", s, 0)

\* The keys of a process dict in insertion order: the literal of to_json
\* (lines 11-15) and the literal of ProcessInfo.to_dict.
BasicKeys == <<"pid", "name", "user", "cpu_percent", "memory_megabyte">>
FullKeys == BasicKeys \o <<"status", "accessible", "error">>
NumberKeys == {"pid", "cpu_percent", "memory_megabyte"}
BoolKeys == {"accessible"}

\* json.dumps that writes None as the string "None".
DumpValue_none_as_text(key, v) ==
  IF key \in NumberKeys THEN Tok("num", "", v)
  ELSE IF key \in BoolKeys THEN Tok("bool", IF v THEN "true" ELSE "false", 0)
  ELSE IF v = None THEN Tok("str", "None", 0)
  ELSE Tok("str", v, 0)

\* json.dumps of one value of a process dict, by the Python type of the value;
\* key tells the model which type the value has.
DumpValue(key, v) ==
  IF key \in NumberKeys THEN Tok("num", "", v)
  ELSE IF key \in BoolKeys THEN Tok("bool", IF v THEN "true" ELSE "false", 0)
  ELSE IF v = None THEN Tok("null", "", 0)
  ELSE Tok("str", v, 0)

\* json.dumps of a dict d whose keys, in order, are keys
RECURSIVE DumpMembers(_, _, _)
DumpMembers(d, keys, k) ==
  IF k > Len(keys) THEN <<>>
  ELSE <<Tok("key", keys[k], 0), DumpValue(keys[k], d[keys[k]])>>
       \o DumpMembers(d, keys, k + 1)

DumpDict(d, keys) == <<Punct("{")>> \o DumpMembers(d, keys, 1) \o <<Punct("}")>>

\* json.dumps of a list of dicts; keysOf gives the keys of an element in order
RECURSIVE DumpList(_, _, _)
DumpList(l, keys, k) ==
  IF k > Len(l) THEN <<>>
  ELSE DumpDict(l[k], keys) \o DumpList(l, keys, k + 1)

DeniedKeys == <<"pid", "error", "name">>

\* json.loads of one value
LoadValue(t) ==
  IF t.k = "num" THEN t.n
  ELSE IF t.k = "bool" THEN t.s = "true"
  ELSE IF t.k = "null" THEN None
  ELSE t.s

\* json.loads of the members of a dict from position pos on: the keys in
\* order of appearance, the dict, and the position after the closing brace.
RECURSIVE LoadMembers(_, _, _, _)
LoadMembers(text, pos, keys, d) ==
  IF text[pos].k = "punct"           \* the closing brace
  THEN [keys |-> keys, val |-> d, next |-> pos + 1]
  ELSE LoadMembers(text, pos + 2, Append(keys, text[pos].s),
                   d @@ (text[pos].s :> LoadValue(text[pos + 1])))

\* json.loads of a list of dicts that starts (after its bracket) at pos
RECURSIVE LoadList(_, _, _)
LoadList(text, pos, items) ==
  IF text[pos] = Punct("]") THEN [items |-> items, next |-> pos + 1]
  ELSE LET e == LoadMembers(text, pos + 1, <<>>, <<>>) IN
       LoadList(text, e.next, Append(items, [keys |-> e.keys, val |-> e.val]))

\* json.loads of the text to_json writes: the top-level members in order.
\* A loaded dict is [keys |-> its keys in order, val |-> key -> value].
RECURSIVE LoadTop(_, _, _, _)
LoadTop(text, pos, keys, d) ==
  IF text[pos] = Punct("}") THEN [keys |-> keys, val |-> d]
  ELSE LET key == text[pos].s IN
       IF text[pos + 1] = Punct("[")
       THEN LET l == LoadList(text, pos + 2, <<>>) IN
            LoadTop(text, l.next, Append(keys, key), d @@ (key :> l.items))
       ELSE LoadTop(text, pos + 2, Append(keys, key),
                    d @@ (key :> text[pos + 1].s))

json_loads(text) == LoadTop(text, 2, <<>>, <<>>)

\* The dict return_json of to_json before json.dumps: its processes, the keys
\* of each of them, and the optional members.
NoSystemInfo == "No system information was collected. Please reach to the developer."

Project(d, keys) == [k \in {keys[j] : j \in DOMAIN keys} |-> d[k]]

to_json_dict(data, args) ==
  [processes |-> IF ~args.advanced
                 THEN [k \in DOMAIN data.processes |->
                         Project(data.processes[k], BasicKeys)]
                 ELSE data.processes,
   process_keys |-> IF ~args.advanced THEN BasicKeys ELSE FullKeys,
   has_system_info |-> args.include_system_info,
   system_info |-> IF "system_info" \in DOMAIN data
                   THEN data.system_info ELSE NoSystemInfo,
   has_denied |-> args.show_denied /\ "denied_processes" \in DOMAIN data
                    /\ data.denied_processes # <<>>,
   denied_processes |-> IF "denied_processes" \in DOMAIN data
                        THEN data.denied_processes ELSE <<>>]

\* json.dumps(return_json, indent=4)
DumpReport(r) ==
  <<Punct("{"), Tok("key", "processes", 0), Punct("[")>>
  \o DumpList(r.processes, r.process_keys, 1) \o <<Punct("]")>>
  \o (IF r.has_system_info
      THEN <<Tok("key", "system_info", 0), Tok("obj", r.system_info, 0)>>
      ELSE <<>>)
  \o (IF r.has_denied
      THEN <<Tok("key", "denied_processes", 0), Punct("[")>>
           \o DumpList(r.denied_processes, DeniedKeys, 1) \o <<Punct("]")>>
      ELSE <<>>)
  \o <<Punct("}")>>

\* OutputFormatter.to_json
to_json(data, args) == DumpReport(to_json_dict(data, args))

\* str(v) of a loaded value; key tells the model which type the value has.
StrOf(key, v) ==
  IF key \in NumberKeys THEN ToString(v)
  ELSE IF key \in BoolKeys THEN (IF v THEN "True" ELSE "False")
  ELSE IF v = None THEN "None"
  ELSE v

\* ",".join(cells)
RECURSIVE JoinComma(_)
JoinComma(cells) ==
  IF cells = <<>> THEN ""
  ELSE IF Len(cells) = 1 THEN cells[1]
  ELSE cells[1] \o "," \o JoinComma(Tail(cells))

\* The value of a formatter call: the exception it raised, or its text.
Formatted(raised, exc, text) == [raised |-> raised, exc |-> exc, text |-> text]

\* lines = [header] + [one line per process]
CsvLines(processes, headers) ==
  <<JoinComma(headers)>> \o
  [k \in DOMAIN processes |->
     JoinComma([j \in DOMAIN headers |->
                  StrOf(headers[j], processes[k].val[headers[j]])])]

\* The body of to_csv without the test for an empty list.
CsvOf_no_check(processes) ==
  Formatted(FALSE, Exc("", ""),
            CsvLines(processes,
                     IF processes = <<>> THEN <<>> ELSE processes[1].keys))

\* The body of to_csv after processes = data_json.get('processes', [])
CsvOf(processes) ==
  IF processes = <<>>
  THEN Formatted(TRUE, Exc("ValueError", "No process data passed."), <<>>)
  ELSE Formatted(FALSE, Exc("", ""), CsvLines(processes, processes[1].keys))

\* OutputFormatter.to_csv: the lines of the CSV text, or the exception raised
to_csv(data, args) == CsvOf(json_loads(to_json(data, args)).val.processes)

\* ------------------------------------------------------------------ state
VARIABLES
  os,                      \* self.os, set by the constructor
  pc,                      \* "idle", "loop", "done", "aborted", "called"
  max_processes,           \* argument of collect_processes
  include_denied_details,  \* argument of collect_processes
  pids,                    \* local: the truncated PID list
  i,                       \* local: number of loop iterations completed
  loc,                     \* locals processes, denied_processes and the counters
  access_info,             \* the summary returned (<<>> before the return)
  enumerated,              \* history: what _get_pid_list returned
  enum_failed,             \* history: the listing mechanism failed
  probed,                  \* history: the arguments of get_process_info, in order
  results,                 \* history: what each of these calls returned
  total_memory,            \* self.total_memory
  cpu_count,               \* self.cpu_count
  collection_timestamp,    \* self.collection_timestamp
  earlier_pass,            \* history: a pass of this collector has returned
  cli_pc,                  \* where ProcessMonitorCLI.run stands
  parsed_args,             \* the argparse namespace of run
  fs,                      \* the output paths on disk: absent, file or dir
  exit_code,               \* what run returned
  handled                  \* history: what the last step of run did

vars == <<os, pc, max_processes, include_denied_details, pids, i, loc,
          access_info, enumerated, enum_failed, probed, results,
          total_memory, cpu_count, collection_timestamp, earlier_pass,
          cli_pc, parsed_args, fs, exit_code, handled>>

\* The state of the command-line driver.
cliVars == <<cli_pc, parsed_args, fs, exit_code, handled>>

\* The attributes of the collector besides os.
selfVars == <<total_memory, cpu_count, collection_timestamp>>

\* ProcessCollector.__init__ on platform p
Construct(p) ==
  /\ os = p
  /\ collection_timestamp = None
  /\ \E h \in Hosts(p) :
       /\ total_memory = _get_total_memory(p, h.mem)
       /\ cpu_count = CpuCountOr1(h.cpus)

\* get_collection_timestamp
get_collection_timestamp == collection_timestamp

EmptyLocals == Locals(<<>>, <<>>, 0, 0)

\* ------------------------------------------------ ProcessMonitorCLI: values
\* A path is the sequence of its components below the working directory; the
\* empty sequence stands for no path (args.file is None or empty).
NoFile == <<>>
OutFile == <<"out.txt">>
OutDir == <<"outdir">>
FixedName == "processes.txt"
TxtNames == {"out.txt", FixedName}
AllPaths == {OutFile, OutDir, Append(OutDir, FixedName)}

\* The namespace parse_args returns.
Args(output, file, advanced, verbose, show_denied, include_system_info, limit, automation) ==
  [output |-> output, file |-> file, advanced |-> advanced,
   verbose |-> verbose, show_denied |-> show_denied,
   include_system_info |-> include_system_info, limit |-> limit,
   automation |-> automation]

\* What one step of run did: the methods it called in order (assignments to
\* parsed_args and plain messages call none), what collect_processes
\* returned, the reports collect_and_format_data returned, what output_data
\* emitted, and the exception that left run.
Handled(log, passes, reports, outputs, exc) ==
  [log |-> log, passes |-> passes, reports |-> reports, outputs |-> outputs,
   exc |-> exc]
NoException == Exc("", "")
NothingHandled == Handled(<<>>, <<>>, <<>>, <<>>, NoException)

\* The arguments before parse_args: the defaults of the parser, with a limit
\* inside the bound.
DefaultArgs == Args("json", NoFile, FALSE, FALSE, FALSE, FALSE, 1, FALSE)

\* The driver has not been started.
CliOff ==
  /\ cli_pc = "off"
  /\ parsed_args = DefaultArgs
  /\ fs = [path \in AllPaths |-> "absent"]
  /\ exit_code = NoNumber
  /\ handled = NothingHandled

Init ==
  /\ \E p \in Platforms : Construct(p)
  /\ pc = "idle"
  /\ max_processes = 0
  /\ include_denied_details = FALSE
  /\ pids = <<>>
  /\ i = 0
  /\ loc = EmptyLocals
  /\ access_info = <<>>
  /\ enumerated = <<>>
  /\ enum_failed = FALSE
  /\ probed = <<>>
  /\ results = <<>>
  /\ earlier_pass = FALSE
  /\ CliOff

\* collect_processes is called: lines 274-284.
CollectStart ==
  /\ pc = "idle"
  /\ \E listed \in PidListOutcomes[os], max \in 0..MaxLimit, include \in BOOLEAN :
       /\ max_processes' = max
       /\ include_denied_details' = include
       /\ enumerated' = listed.pids
       /\ enum_failed' = listed.failed
       /\ pids' = Truncate(listed.pids, max)
  /\ i' = 0
  /\ loc' = EmptyLocals
  /\ pc' = "loop"
  /\ UNCHANGED <<os, access_info, probed, results, selfVars, earlier_pass, cliVars>>

\* One iteration of the for loop: lines 286-312.
ProbeStep ==
  /\ pc = "loop"
  /\ i < Len(pids)
  /\ LET pid == pids[i + 1] IN
     \E env \in Envs(os, pid) :
       LET proc_info == get_process_info(os, pid, env)
           r == LoopBody(proc_info, pid, include_denied_details, loc)
       IN /\ probed' = Append(probed, pid)
          /\ results' = Append(results, proc_info)
          /\ loc' = r.st
          /\ pc' = IF r.aborted THEN "aborted" ELSE "loop"
  /\ i' = i + 1
  /\ UNCHANGED <<os, max_processes, include_denied_details, pids, access_info,
                 enumerated, enum_failed, selfVars, earlier_pass, cliVars>>

\* The return with self.collection_timestamp set to the time of the pass.
CollectReturn_stamps ==
  /\ pc = "loop"
  /\ i = Len(pids)
  /\ access_info' = BuildAccessInfo(pids, loc, include_denied_details)
  /\ pc' = "done"
  /\ collection_timestamp' = "2026-01-01T00:00:00"
  /\ UNCHANGED <<os, max_processes, include_denied_details, pids, i, loc,
                 enumerated, enum_failed, probed, results, total_memory,
                 cpu_count, earlier_pass, cliVars>>

\* The loop is over: lines 317-326.
CollectReturn ==
  /\ pc = "loop"
  /\ i = Len(pids)
  /\ access_info' = BuildAccessInfo(pids, loc, include_denied_details)
  /\ pc' = "done"
  /\ UNCHANGED <<os, max_processes, include_denied_details, pids, i, loc,
                 enumerated, enum_failed, probed, results, selfVars, earlier_pass, cliVars>>

\* get_process_info is called by a client directly (as __main__ does).
GetProcessInfoCall ==
  /\ pc = "idle"
  /\ \E pid \in PIDS : \E env \in Envs(os, pid) :
       /\ probed' = <<pid>>
       /\ results' = <<get_process_info(os, pid, env)>>
  /\ pc' = "called"
  /\ UNCHANGED <<os, max_processes, include_denied_details, pids, i, loc,
                 access_info, enumerated, enum_failed, selfVars, earlier_pass, cliVars>>

\* The call is over; its locals and results are dropped.
NextCall ==
  /\ pc \in {"done", "aborted", "called"}
  /\ pc' = "idle"
  /\ max_processes' = 0
  /\ include_denied_details' = FALSE
  /\ pids' = <<>>
  /\ i' = 0
  /\ loc' = EmptyLocals
  /\ access_info' = <<>>
  /\ enumerated' = <<>>
  /\ enum_failed' = FALSE
  /\ probed' = <<>>
  /\ results' = <<>>
  /\ earlier_pass' = (earlier_pass \/ pc = "done")
  /\ UNCHANGED <<os, selfVars, cliVars>>

Next ==
  \/ CollectStart
  \/ ProbeStep
  \/ CollectReturn
  \/ GetProcessInfoCall
  \/ NextCall

Spec == Init /\ [][Next]_vars

TypeOK == pc \in {"idle", "loop", "done", "aborted", "called"}

\* ------------------------------------------------------------ file system
Parent(path) == SubSeq(path, 1, Len(path) - 1)
\* os.path.join(path, name)
JoinPath(path, name) == Append(path, name)
\* path.endswith('.txt')
EndsWithTxt(path) == path # NoFile /\ path[Len(path)] \in TxtNames
\* The working directory exists; every other path is what fs says.
Kind(f, path) == IF path = NoFile THEN "dir" ELSE f[path]

FsResult(raised, type, f) == [raised |-> raised, exc |-> Exc(type, ""), fs |-> f]

\* os.makedirs(path, exist_ok=True) and Path.mkdir(parents=True,
\* exist_ok=True): an existing directory is accepted, an existing file is not.
RECURSIVE MakeDirs(_, _)
MakeDirs(f, path) ==
  IF Kind(f, path) = "dir" THEN FsResult(FALSE, "", f)
  ELSE IF Kind(f, path) = "file" THEN FsResult(TRUE, "FileExistsError", f)
  ELSE LET up == MakeDirs(f, Parent(path)) IN
       IF up.raised THEN up
       ELSE FsResult(FALSE, "", [up.fs EXCEPT ![path] = "dir"])

\* open(path, 'w'): the file is created or truncated.
OpenForWriting(f, path) ==
  IF Kind(f, Parent(path)) # "dir" THEN FsResult(TRUE, "FileNotFoundError", f)
  ELSE IF Kind(f, path) = "dir" THEN FsResult(TRUE, "IsADirectoryError", f)
  ELSE FsResult(FALSE, "", [f EXCEPT ![path] = "file"])

\* ------------------------------------------------------ validate_arguments
\* What the parent directory answers to mkdir.
MkdirAnswers == {"ok", "PermissionError"}

\* validate_arguments: whether the arguments are accepted, and the file
\* system after the parent directory was made.
validate_arguments(args, f, mkdir) ==
  IF args.limit <= 0 THEN [ok |-> FALSE, fs |-> f]
  ELSE IF args.file # NoFile THEN
    IF mkdir # "ok" THEN [ok |-> FALSE, fs |-> f]
    ELSE LET made == MakeDirs(f, Parent(args.file)) IN
         IF made.raised THEN [ok |-> FALSE, fs |-> f]
         ELSE [ok |-> Kind(made.fs, args.file) # "dir", fs |-> made.fs]
  ELSE [ok |-> TRUE, fs |-> f]

\* ------------------------------------------- the host the driver runs on
AllPids == [k \in 1..MaxPid |-> k]
ListingOf(p) ==
  IF HasWin(p) THEN [k \in 1..WinSkip |-> NotAPid] \o AllPids
  ELSE IF IsDarwin(p) THEN [k \in 1..MacSkip |-> NotAPid] \o AllPids
  ELSE AllPids

\* Per PID, what the metric source answers.
EnvMaps(p) ==
  IF IsLinux(p) THEN
    {[pid \in PIDS |-> LinuxEnv("ok", "ok", "running", "ok",
                                IF pid = 2 THEN 2046 ELSE 512)],
     [pid \in PIDS |-> IF pid = MaxPid
                       THEN LinuxEnv("ok", "AccessDenied", "running", "ok", 512)
                       ELSE LinuxEnv("ok", "ok", "running", "ok", 512)],
     [pid \in PIDS |-> LinuxEnv("missing", "ok", "running", "ok", 512)]}
  ELSE IF IsDarwin(p) THEN
    {[pid \in PIDS |->
        [raises |-> "none", returncode |-> 0,
         stdout |-> <<MacHeader,
                      [n |-> 5, pid |-> pid, user |-> "root", cpu |-> 1200,
                       mem |-> 300, stat |-> "S"]>>]]}
  ELSE IF HasWin(p) THEN
    {[pid \in PIDS |-> WinEnv("none", 0, "object", "svchost",
                              IF pid = 2 THEN 40960 ELSE 20480, "running")],
     [pid \in PIDS |-> IF pid = MaxPid
                       THEN WinEnv("none", 1, "", None, NoNumber, "NoSuchProcess")
                       ELSE WinEnv("none", 0, "object", "svchost", 20480, "running")],
     [pid \in PIDS |-> WinEnv("TimeoutExpired", 0, "object", "svchost", 20480,
                              "running")]}
  ELSE {[pid \in PIDS |-> [none |-> TRUE]]}

\* A host: the listing answers or fails at once, and one answer per PID.
Worlds(p) ==
  {[src |-> [entries |-> ListingOf(p), failAt |-> at, returncode |-> 0],
    env |-> e] : at \in {0, 1}, e \in EnvMaps(p)}

\* What get_system_summary does: it returns, or psutil raises.
SystemSummary == "system summary"
SummaryAnswers == {"ok", "PermissionError"}

\* ----------------------------------------------------- collect_processes
\* The locals of collect_processes after k iterations of its loop.
RECURSIVE PassLocals(_, _, _, _, _)
PassLocals(p, ps, env, include, k) ==
  IF k = 0 THEN [aborted |-> FALSE, st |-> EmptyLocals]
  ELSE LET prev == PassLocals(p, ps, env, include, k - 1) IN
       IF prev.aborted THEN prev
       ELSE LoopBody(get_process_info(p, ps[k], env[ps[k]]), ps[k], include,
                     prev.st)

\* What collect_processes returns after its loop over ps ended in r.
PassResult(ps, r, include, max) ==
  [raised |-> r.aborted, limit |-> max, probed |-> ps,
   processes |-> r.st.processes,
   access_info |-> BuildAccessInfo(ps, r.st, include)]

Pass(p, ps, env, include, max) ==
  PassResult(ps, PassLocals(p, ps, env, include, Len(ps)), include, max)

\* collect_processes as the driver calls it: one whole pass on host w.
collect_processes(p, w, include, max) ==
  Pass(p, Truncate(_get_pid_list(p, w.src), max), w.env, include, max)

\* ------------------------------------------------ collect_and_format_data
\* sorted(..., reverse=True) that puts a record behind the later records of
\* equal memory.
InsertByMemory_ties_reversed(x, s) ==
  LET before == {k \in DOMAIN s : s[k].memory_megabyte < x.memory_megabyte}
      at     == IF before = {} THEN Len(s) + 1
                ELSE CHOOSE k \in before : \A j \in before : k <= j
  IN  SubSeq(s, 1, at - 1) \o <<x>> \o SubSeq(s, at, Len(s))

\* x, which precedes every record of s in the input, placed into the sorted s:
\* in front of the first record whose memory is not larger.
InsertByMemory(x, s) ==
  LET before == {k \in DOMAIN s : s[k].memory_megabyte <= x.memory_megabyte}
      at     == IF before = {} THEN Len(s) + 1
                ELSE CHOOSE k \in before : \A j \in before : k <= j
  IN  SubSeq(s, 1, at - 1) \o <<x>> \o SubSeq(s, at, Len(s))

\* sorted(processes, key=lambda p: p.get('memory_megabyte', 0), reverse=True):
\* the sort is stable.
RECURSIVE SortByMemory(_)
SortByMemory(s) ==
  IF s = <<>> THEN <<>> ELSE InsertByMemory(Head(s), SortByMemory(Tail(s)))

\* access_info.get(key, default) for the counter the metadata reads
GetTotalFound(info, default) ==
  IF "total_found" \in DOMAIN info THEN info.total_found ELSE default

\* The value of a call that did not return.
NoData == [returned |-> FALSE]

\* The body of collect_and_format_data after collect_processes returned c;
\* summary is what get_system_summary does.  engine is c.
Report(c, args, summary, timestamp) ==
  LET base ==
        [processes |-> SortByMemory(c.processes),
         metadata |->
           [collection_timestamp |-> timestamp,
            total_processes_found |->
              GetTotalFound(c.access_info, Len(c.processes)),
            accessible_processes |-> Len(c.processes),
            permission_denied |-> c.access_info.permission_denied]]
      withSummary ==
        IF args.include_system_info
        THEN base @@ [system_info |-> SystemSummary] ELSE base
      data ==
        IF args.show_denied /\ "denied_details" \in DOMAIN c.access_info
        THEN withSummary @@ [denied_processes |-> c.access_info.denied_details]
        ELSE withSummary
  IN  IF c.raised
      THEN [raised |-> TRUE, exc |-> Exc("BaseException", ""), engine |-> c,
            data |-> NoData]
      ELSE IF args.include_system_info /\ summary # "ok"
      THEN [raised |-> TRUE, exc |-> Exc(summary, ""), engine |-> c,
            data |-> NoData]
      ELSE [raised |-> FALSE, exc |-> NoException, engine |-> c, data |-> data]

\* collect_and_format_data on platform p and host w
collect_and_format_data(p, args, w, summary, timestamp) ==
  Report(collect_processes(p, w, args.show_denied, args.limit), args, summary,
         timestamp)

\* ------------------------------------------------------------ output_data
Formats == {"json", "csv"}

\* What was emitted: where (NoFile: the console), in which format, and the
\* text, a JSON token sequence or the lines of a CSV.
Emission(dest, format, json, csv) ==
  [dest |-> dest, format |-> format, json |-> json, csv |-> csv]

\* output_content: whether it is assigned, and the text by format
Content(raised, exc, assigned, json, csv) ==
  [raised |-> raised, exc |-> exc, assigned |-> assigned, json |-> json,
   csv |-> csv]
CsvContent(c) == Content(c.raised, c.exc, TRUE, <<>>, c.text)

\* output_content after the if/elif over args.output
Format(data, args) ==
  IF args.output = "json"
  THEN Content(FALSE, NoException, TRUE, to_json(data, args), <<>>)
  ELSE IF args.output = "csv" THEN CsvContent(to_csv(data, args))
  ELSE Content(FALSE, NoException, FALSE, <<>>, <<>>)

OutputResult(raised, exc, f, file, outputs) ==
  [raised |-> raised, exc |-> exc, fs |-> f, file |-> file, outputs |-> outputs]

\* The rest of output_data: content c goes to args.file or to the console.
Write(c, args, f) ==
  LET unbound == Exc("UnboundLocalError", "")
      content(dest) == <<Emission(dest, args.output, c.json, c.csv)>>
  IN
  IF c.raised THEN OutputResult(TRUE, c.exc, f, args.file, <<>>)
  ELSE IF args.file # NoFile THEN
    LET made   == IF EndsWithTxt(args.file) THEN FsResult(FALSE, "", f)
                  ELSE MakeDirs(f, args.file)
        target == IF EndsWithTxt(args.file) THEN args.file
                  ELSE JoinPath(args.file, FixedName)
        opened == OpenForWriting(made.fs, target)
    IN  IF made.raised THEN OutputResult(TRUE, made.exc, f, args.file, <<>>)
        ELSE IF opened.raised
        THEN OutputResult(TRUE, opened.exc, made.fs, target, <<>>)
        ELSE IF ~c.assigned
        THEN OutputResult(TRUE, unbound, opened.fs, target, <<>>)
        ELSE OutputResult(FALSE, NoException, opened.fs, target, content(target))
  ELSE IF ~c.assigned THEN OutputResult(TRUE, unbound, f, args.file, <<>>)
  ELSE OutputResult(FALSE, NoException, f, args.file, content(NoFile))

\* output_data: the exception it raises, the file system and args.file after
\* it, and what it emitted.
output_data(data, args, f) == Write(Format(data, args), args, f)

\* ------------------------------------------------- the interactive loop
\* A line of input is the sequence of its words (the line split at blanks).
\* No word of the model contains a command keyword inside a longer word, so
\* "keyword in user_input.lower()" is a match of whole words.  The line
\* "verbose" is left out: the flag only adds console messages.
Lower(word) == IF word = "EXIT" THEN "exit" ELSE word
LowerLine(line) == [k \in DOMAIN line |-> Lower(line[k])]

Contains(line, phrase) ==
  \E k \in 1..(Len(line) - Len(phrase) + 1) :
    SubSeq(LowerLine(line), k, k + Len(phrase) - 1) = phrase

LastWord(line) == line[Len(line)]

\* int(word): the words that are numerals, and their values
Numerals == {ToString(n) : n \in 0..MaxLimit}
IntOf(word) == CHOOSE n \in 0..MaxLimit : ToString(n) = word

UserInputs ==
  {<<"exit">>, <<"EXIT">>, <<"help">>, <<"help", "visualization">>,
   <<"visualization", "help">>, <<"limit">>, <<"limit", "abc">>,
   <<"output", "json">>, <<"output", "csv">>, <<"output", "xml">>,
   <<"file", "out.txt">>, <<"file", "outdir">>, <<"advanced">>, <<"show", "denied">>, <<"include", "system", "info">>,
   <<"collect", "data">>, <<"clear">>, <<"show", "parameters">>, <<"foo">>}
  \cup {<<"limit", w>> : w \in Numerals}

\* The branch of the if/elif chain of run that a line takes.
Dispatch(line) ==
  IF Contains(line, <<"exit">>) THEN "exit"
  ELSE IF Contains(line, <<"help">>) THEN "help"
  ELSE IF Contains(line, <<"limit">>) THEN "limit"
  ELSE IF Contains(line, <<"output">>) THEN "output"
  ELSE IF Contains(line, <<"file">>) THEN "file"
  ELSE IF Contains(line, <<"verbose">>) THEN "verbose"
  ELSE IF Contains(line, <<"advanced">>) THEN "advanced"
  ELSE IF Contains(line, <<"show", "denied">>) THEN "show denied"
  ELSE IF Contains(line, <<"include", "system", "info">>) THEN "include system info"
  ELSE IF Contains(line, <<"collect", "data">>) THEN "collect data"
  ELSE IF Contains(line, <<"visualization", "help">>) THEN "visualization help"
  ELSE IF Contains(line, <<"clear">>) THEN "clear"
  ELSE IF Contains(line, <<"show", "parameters">>) THEN "show parameters"
  ELSE "unknown"

\* The branches that only assign to parsed_args or print.
SetArgs(branch, line, args) ==
  IF branch = "limit" /\ Len(line) >= 2
  THEN [args EXCEPT !.limit = IntOf(LastWord(line))]
  ELSE IF branch = "output" THEN [args EXCEPT !.output = LastWord(line)]
  ELSE IF branch = "file" THEN [args EXCEPT !.file = <<LastWord(line)>>]
  ELSE IF branch = "verbose" THEN [args EXCEPT !.verbose = ~@]
  ELSE IF branch = "advanced" THEN [args EXCEPT !.advanced = ~@]
  ELSE IF branch = "show denied" THEN [args EXCEPT !.show_denied = ~@]
  ELSE IF branch = "include system info"
  THEN [args EXCEPT !.include_system_info = ~@]
  ELSE args

\* The values parse_args can return (verbose only adds console messages).
FileArgs == {NoFile, OutFile, OutDir}
ParsedArgs ==
  {Args(o, f, adv, FALSE, sd, si, l, au) :
     o \in Formats, f \in FileArgs, adv \in BOOLEAN, sd \in BOOLEAN,
     si \in BOOLEAN, l \in 0..MaxLimit, au \in BOOLEAN}

\* The platforms the driver is run on, and what the host answers to the
\* constructor of its collector.
CliPlatforms == {"linux", "darwin"}
CliHost == [mem |-> MemEnv(FALSE, 0, "value", 16 * KiBPerGiB), cpus |-> 4]

engineVars == <<os, pc, max_processes, include_denied_details, pids, i, loc,
                access_info, enumerated, enum_failed, probed, results,
                selfVars, earlier_pass>>

\* ProcessMonitorCLI() is constructed; the output paths do not exist yet.
CliInit ==
  /\ os \in CliPlatforms
  /\ total_memory = _get_total_memory(os, CliHost.mem)
  /\ cpu_count = CpuCountOr1(CliHost.cpus)
  /\ collection_timestamp = None
  /\ pc = "idle"
  /\ max_processes = 0
  /\ include_denied_details = FALSE
  /\ pids = <<>>
  /\ i = 0
  /\ loc = EmptyLocals
  /\ access_info = <<>>
  /\ enumerated = <<>>
  /\ enum_failed = FALSE
  /\ probed = <<>>
  /\ results = <<>>
  /\ earlier_pass = FALSE
  /\ cli_pc = "start"
  /\ parsed_args = DefaultArgs
  /\ fs = [path \in AllPaths |-> "absent"]
  /\ exit_code = NoNumber
  /\ handled = NothingHandled

\* parsed_args = parser.parse_args(args): line 216.
ParseArgs ==
  /\ cli_pc = "start"
  /\ cli_pc' = "parsed"
  /\ parsed_args' \in ParsedArgs
  /\ UNCHANGED <<fs, exit_code, handled, engineVars>>

\* What run does with the report c and, if there is one, with what
\* output_data made of it (o); done is where run stands if nothing raised.
Conclude(c, o, log, f, done) ==
  IF c.raised
  THEN /\ handled' = Handled(Append(log, "collect_and_format_data"),
                             <<c.engine>>, <<>>, <<>>, c.exc)
       /\ cli_pc' = "raised"
       /\ fs' = f
       /\ UNCHANGED parsed_args
  ELSE /\ handled' = Handled(log \o <<"collect_and_format_data", "output_data">>,
                             <<c.engine>>, <<c.data>>, o.outputs, o.exc)
       /\ parsed_args' = [parsed_args EXCEPT !.file = o.file]
       /\ fs' = o.fs
       /\ cli_pc' = IF o.raised THEN "raised" ELSE done

\* self.output_data(data, args), reached only if data was returned
OutputOf(c, args, f) ==
  IF c.raised THEN OutputResult(TRUE, c.exc, f, args.file, <<>>)
  ELSE output_data(c.data, args, f)

Emit(c, log, f, done) == Conclude(c, OutputOf(c, parsed_args, f), log, f, done)

\* data = self.collect_and_format_data(args); self.output_data(data, args):
\* the two calls both modes of run make, on disk f after the methods of log
\* were called.
CollectAndOutput(log, f, w, summary, done) ==
  Emit(collect_and_format_data(os, parsed_args, w, summary,
                               get_collection_timestamp), log, f, done)

\* run with --automation: lines 288-294.
RunAutomation ==
  /\ cli_pc = "parsed"
  /\ parsed_args.automation
  /\ \E mkdir \in MkdirAnswers :
       LET v == validate_arguments(parsed_args, fs, mkdir) IN
       IF ~v.ok
       THEN /\ cli_pc' = "returned"
            /\ exit_code' = 1
            /\ fs' = v.fs
            /\ handled' = Handled(<<"validate_arguments">>, <<>>, <<>>, <<>>,
                                  NoException)
            /\ UNCHANGED parsed_args
       ELSE \E w \in Worlds(os), summary \in SummaryAnswers :
              /\ CollectAndOutput(<<"validate_arguments">>, v.fs, w, summary,
                                  "returned")
              /\ exit_code' = IF cli_pc' = "returned" THEN 0 ELSE exit_code
  /\ UNCHANGED engineVars

\* run without --automation reaches the prompt: lines 217-224.
EnterLoop ==
  /\ cli_pc = "parsed"
  /\ ~parsed_args.automation
  /\ cli_pc' = "prompt"
  /\ handled' = Handled(<<"show_parameters">>, <<>>, <<>>, <<>>, NoException)
  /\ UNCHANGED <<parsed_args, fs, exit_code, engineVars>>

\* The method a branch of the loop calls, if it calls one.
Called(branch) ==
  IF branch = "help" THEN <<"help">>
  ELSE IF branch = "visualization help" THEN <<"show_visualization_help">>
  ELSE IF branch = "show parameters" THEN <<"show_parameters">>
  ELSE <<>>

\* A line with "exit": the loop ends and run returns 0.
ExitLoop ==
  /\ cli_pc = "prompt"
  /\ \E line \in UserInputs : Dispatch(line) = "exit"
  /\ cli_pc' = "returned"
  /\ exit_code' = 0
  /\ handled' = NothingHandled
  /\ UNCHANGED <<parsed_args, fs, engineVars>>

\* A line that takes the branch "collect data": lines 277-279.
CollectData ==
  /\ cli_pc = "prompt"
  /\ \E line \in UserInputs : Dispatch(line) = "collect data"
  /\ \E w \in Worlds(os), summary \in SummaryAnswers :
       CollectAndOutput(<<>>, fs, w, summary, "prompt")
  /\ UNCHANGED <<exit_code, engineVars>>

\* A line that takes any other branch: an assignment to parsed_args, a
\* message, or int() failing on the limit.
Command ==
  /\ cli_pc = "prompt"
  /\ \E line \in UserInputs :
       LET branch == Dispatch(line) IN
       /\ branch \notin {"exit", "collect data"}
       /\ IF branch = "limit" /\ Len(line) >= 2 /\ LastWord(line) \notin Numerals
          THEN /\ cli_pc' = "raised"
               /\ handled' = Handled(<<>>, <<>>, <<>>, <<>>, Exc("ValueError", ""))
               /\ UNCHANGED parsed_args
          ELSE /\ parsed_args' = SetArgs(branch, line, parsed_args)
               /\ handled' = Handled(Called(branch), <<>>, <<>>, <<>>, NoException)
               /\ UNCHANGED cli_pc
  /\ UNCHANGED <<fs, exit_code, engineVars>>

\* The program is started again on the same disk.
Restart ==
  /\ cli_pc \in {"returned", "raised"}
  /\ cli_pc' = "start"
  /\ parsed_args' = DefaultArgs
  /\ exit_code' = NoNumber
  /\ handled' = NothingHandled
  /\ UNCHANGED <<fs, engineVars>>

CliNext ==
  \/ ParseArgs
  \/ RunAutomation
  \/ EnterLoop
  \/ ExitLoop
  \/ CollectData
  \/ Command
  \/ Restart

CliSpec == CliInit /\ [][CliNext]_vars

CliTypeOK ==
  /\ cli_pc \in {"start", "parsed", "prompt", "returned", "raised"}
  /\ exit_code \in {NoNumber, 0, 1}
  /\ \A path \in AllPaths : fs[path] \in {"absent", "file", "dir"}
  /\ parsed_args.limit \in 0..MaxLimit

\* ================================================================ claims
InPass == pc \in {"loop", "done"}

StrictlyDescending(s) == \A a, b \in DOMAIN s : a < b => s[a] > s[b]

\* The result is a dict whose accessible flag is set.
IsAccessibleRecord(r) == IsDict(r) /\ r.accessible

\* The PIDs probed so far whose result was (not) an accessible record.
RECURSIVE ProbedWhere(_, _)
ProbedWhere(k, wantAccessible) ==
  IF k = 0 THEN <<>>
  ELSE IF IsAccessibleRecord(results[k]) = wantAccessible
       THEN Append(ProbedWhere(k - 1, wantAccessible), k)
       ELSE ProbedWhere(k - 1, wantAccessible)

\* C1: with max_processes = N > 0 the pass probes exactly the first
\* min(N, total) PIDs of the descending enumeration, each once, in that order,
\* and no other PID.
C1_ProbesFirstN ==
  (InPass /\ max_processes > 0) =>
    /\ StrictlyDescending(enumerated)
    /\ i <= Min(max_processes, Len(enumerated))
    /\ probed = SubSeq(enumerated, 1, i)
    /\ (pc = "done" => i = Min(max_processes, Len(enumerated)))

C1_Witness ==
  /\ pc = "done"
  /\ max_processes = 2
  /\ Len(enumerated) = 3
  /\ probed = <<3, 2>>

\* C2: accessible + denied equals the number of PIDs probed, during the loop
\* and in the returned summary, and every iteration adds one to exactly one of
\* the two counters.
C2_CountersPartition ==
  InPass =>
    /\ loc.accessible_count + loc.denied_count = Len(probed)
    /\ (pc = "done" =>
          access_info.accessible_processes + access_info.permission_denied
            = Len(probed))

C2_OneCounterPerIteration ==
  (pc = "loop" /\ i' = i + 1) =>
    \/ /\ loc'.accessible_count = loc.accessible_count + 1
       /\ loc'.denied_count = loc.denied_count
    \/ /\ loc'.accessible_count = loc.accessible_count
       /\ loc'.denied_count = loc.denied_count + 1

C2_Counters == [](C2_CountersPartition) /\ [][C2_OneCounterPerIteration]_vars

\* A pass that met an accessible dict, a denied dict and a non-dict value.
C2_Witness ==
  /\ pc = "done"
  /\ \E a, b, c \in DOMAIN results :
       /\ IsAccessibleRecord(results[a])
       /\ IsDict(results[b]) /\ ~results[b].accessible
       /\ ~IsDict(results[c])

\* C3: a failed resolution never aborts the pass: collect_processes never
\* leaves the loop by an exception, every PID of the truncated list is probed,
\* and the records that resolved are returned.
C3_FailureIsolated ==
  /\ pc # "aborted"
  /\ (pc = "done" =>
        /\ probed = pids
        /\ \A k \in DOMAIN results :
             IsAccessibleRecord(results[k]) =>
               \E j \in DOMAIN loc.processes : loc.processes[j] = results[k])

\* The first PID failed with a non-dict value and a later one resolved.
C3_Witness ==
  /\ pc = "done"
  /\ Len(results) >= 2
  /\ ~IsDict(results[1])
  /\ IsAccessibleRecord(results[Len(results)])

\* C4: total_found_process is the number of PIDs enumerated before the
\* truncation to max_processes.
C4_TotalFoundBeforeTruncation ==
  pc = "done" => access_info.total_found_process = Len(enumerated)

\* C5: get_process_info returns a dict with the eight keys for every PID on
\* every platform; no other value reaches its caller.
C5_AlwaysDictRecord ==
  \A k \in DOMAIN results :
    IsDict(results[k]) /\ DOMAIN results[k] = DictKeys

\* C6: a record with accessible set has error None and the requested pid; a
\* record with accessible unset has a non-empty error string.
C6_RecordInvariant ==
  \A k \in DOMAIN results :
    results[k] # NoneObject =>
      /\ results[k].accessible =>
           (results[k].error = None /\ results[k].pid = probed[k])
      /\ ~results[k].accessible =>
           (results[k].error # None /\ results[k].error # "")

\* C7: when the listing mechanism fails, _get_pid_list returns the empty list
\* and the pass ends with no record and both counters zero.
C7_FailedEnumerationIsEmpty ==
  (InPass /\ enum_failed) =>
    /\ enumerated = <<>>
    /\ (pc = "done" =>
          /\ loc.processes = <<>>
          /\ access_info.accessible_processes = 0
          /\ access_info.permission_denied = 0)

\* C8: the returned list holds exactly the accessible records of the probed
\* PIDs, in probing order, strictly descending by pid; its length is
\* accessible_processes and no record in it has accessible unset.
C8_RecordsInEnumerationOrder ==
  InPass =>
    LET acc == ProbedWhere(Len(results), TRUE) IN
    /\ Len(loc.processes) = Len(acc)
    /\ \A j \in DOMAIN acc :
         /\ loc.processes[j] = results[acc[j]]
         /\ loc.processes[j].pid = probed[acc[j]]
    /\ StrictlyDescending([j \in DOMAIN loc.processes |-> loc.processes[j].pid])
    /\ \A j \in DOMAIN loc.processes : loc.processes[j].accessible
    /\ Len(loc.processes) = loc.accessible_count
    /\ (pc = "done" => access_info.accessible_processes = Len(loc.processes))

\* Two records returned around a PID that was denied.
C8_Witness ==
  /\ pc = "done"
  /\ Len(loc.processes) = 2
  /\ Len(probed) = 3
  /\ ~IsAccessibleRecord(results[2])

\* C9: without include_denied_details the summary has no denied_details key,
\* also when PIDs were denied.
C9_NoDetailsUnlessRequested ==
  (pc = "done" /\ ~include_denied_details) =>
    "denied_details" \notin DOMAIN access_info

C9_Witness ==
  /\ pc = "done"
  /\ ~include_denied_details
  /\ access_info.permission_denied > 0
  /\ "denied_details" \notin DOMAIN access_info

\* The name get_process_info resolved, if any.
ResolvedName(r) ==
  IF "name" \in DOMAIN r /\ Truthy(r.name) THEN r.name ELSE None

\* C10: with include_denied_details and at least one denied PID,
\* denied_details has one entry per denied PID in probing order, as many as
\* permission_denied; an entry carries the probed pid, and the resolved name
\* or else the placeholder pid_<N>.
C10_DeniedDetails ==
  (pc = "done" /\ include_denied_details /\ access_info.permission_denied >= 1) =>
    /\ "denied_details" \in DOMAIN access_info
    /\ LET den == ProbedWhere(Len(results), FALSE)
           dd  == access_info.denied_details
       IN  /\ Len(dd) = access_info.permission_denied
           /\ Len(dd) = Len(den)
           /\ \A j \in DOMAIN den :
                /\ dd[j].pid = probed[den[j]]
                /\ dd[j].name =
                     IF ResolvedName(results[den[j]]) # None
                     THEN ResolvedName(results[den[j]])
                     ELSE PidPlaceholder(probed[den[j]])

\* Details with a resolved name and with a placeholder.
C10_Witness ==
  /\ pc = "done"
  /\ include_denied_details
  /\ "denied_details" \in DOMAIN access_info
  /\ \E a, b \in DOMAIN access_info.denied_details :
       /\ access_info.denied_details[a].name
            = PidPlaceholder(access_info.denied_details[a].pid)
       /\ access_info.denied_details[b].name
            # PidPlaceholder(access_info.denied_details[b].pid)

\* The error a metric source sets when the PID is gone: the status file cannot
\* be read (Linux), ps finds no such process (macOS), Get-Process gives no
\* name (Windows).
NotFoundMessages ==
  {"Cannot read /proc/pid/stat", "Process not found or permission denied",
   "Unable to retrieve process information"}

\* C11: a PID that vanished before its resolution is counted as denied and its
\* denied_details entry carries the metric source's not-found message, which
\* is not the permission-denied message.
C11_VanishedPidMessage ==
  (pc = "done" /\ include_denied_details /\ "denied_details" \in DOMAIN access_info) =>
    LET den == ProbedWhere(Len(results), FALSE)
        dd  == access_info.denied_details
    IN  \A j \in DOMAIN den :
          LET r == results[den[j]] IN
          ("error" \in DOMAIN r /\ r.error \in NotFoundMessages) =>
            /\ j \in DOMAIN dd
            /\ dd[j].error = r.error
            /\ dd[j].error # "Permission denied"

IsPositiveInt(v) == "kib" \in DOMAIN v /\ (v.kib > 0 \/ v.b > 0)

\* C12: _get_total_memory returns a positive integer on every path of every
\* platform branch, so total_memory is never None or 0.
C12_TotalMemoryPositive == IsPositiveInt(total_memory)

\* The locals after the first k iterations of a pass that starts from nothing.
RECURSIVE Replay(_)
Replay(k) ==
  IF k = 0 THEN EmptyLocals
  ELSE LoopBody(results[k], probed[k], include_denied_details, Replay(k - 1)).st

\* What a pass returns depends on its enumeration and its per-PID results only.
C20_PassFromNothing ==
  InPass =>
    /\ loc = Replay(Len(results))
    /\ (pc = "done" => access_info = BuildAccessInfo(pids, loc, include_denied_details))

Collected == handled.passes # <<>>
\* The last step of run was the automation branch.
AutomationStep == handled.log # <<>> /\ handled.log[1] = "validate_arguments"

\* C13: collect_processes is never invoked while the limit is <= 0, in
\* automation mode and in the interactive loop alike.
C13_NoCollectionAtNonPositiveLimit ==
  \A k \in DOMAIN handled.passes : handled.passes[k].limit > 0

\* C14: an automation run either fails validation, returns 1 and neither
\* collects nor emits, or it collects, emits and returns 0.  Runs that ask
\* for the system summary are C16's subject and left aside here.
C14_AutomationReturns ==
  (AutomationStep /\ ~parsed_args.include_system_info) =>
    \/ /\ handled.log = <<"validate_arguments">>
       /\ cli_pc = "returned" /\ exit_code = 1
       /\ handled.passes = <<>> /\ handled.outputs = <<>>
    \/ /\ handled.log = <<"validate_arguments", "collect_and_format_data",
                          "output_data">>
       /\ cli_pc = "returned" /\ exit_code = 0
       /\ Len(handled.passes) = 1 /\ Len(handled.outputs) = 1

\* C15: in an automation run a path that does not end in ".txt" is accepted
\* by validation whether or not the directory exists (a writable parent, a
\* valid limit, no file of that name), and the report then goes to
\* <path>/processes.txt.
C15_DirectoryPathAccepted ==
  (/\ cli_pc = "parsed"
   /\ parsed_args.automation
   /\ parsed_args.limit > 0
   /\ parsed_args.file # NoFile
   /\ ~EndsWithTxt(parsed_args.file)
   /\ Kind(fs, parsed_args.file) # "file")
  => /\ validate_arguments(parsed_args, fs, "ok").ok
     /\ Write(Content(FALSE, NoException, TRUE, <<>>, <<>>), parsed_args, fs).file
          = JoinPath(parsed_args.file, FixedName)

\* C16: a failure of get_system_summary does not block the report:
\* collect_and_format_data returns it and output_data is called with it.
C16_ReportDespiteSummaryFailure ==
  Collected => /\ Len(handled.reports) = 1
               /\ handled.log[Len(handled.log)] = "output_data"

\* ---------------------------------------------------------- the formatter
\* Every setting of the options the formatter reads.
OptionSettings ==
  [advanced : BOOLEAN, show_denied : BOOLEAN, include_system_info : BOOLEAN]

\* The reports the formatter is given: what collect_and_format_data returned.
ReportsMade == {handled.reports[k] : k \in DOMAIN handled.reports}

\* The CSV row of process record p under the header keys.
RowOf(p, keys) == JoinComma([j \in DOMAIN keys |-> StrOf(keys[j], p[keys[j]])])
KeysShown(o) ==
  IF o.advanced
  THEN <<"pid", "name", "user", "cpu_percent", "memory_megabyte", "status",
         "accessible", "error">>
  ELSE <<"pid", "name", "user", "cpu_percent", "memory_megabyte">>

\* C17: to_csv of a report without processes raises ValueError and gives no
\* text, under every option setting; of a report with processes it gives the
\* header of the first record's keys and then one row per process in input
\* order.  What output_data emits as CSV is that text.
C17_CsvRows ==
  /\ \A data \in ReportsMade : \A o \in OptionSettings :
       LET r == to_csv(data, o) IN
       IF data.processes = <<>>
       THEN r.raised /\ r.exc.type = "ValueError" /\ r.text = <<>>
       ELSE /\ ~r.raised
            /\ Len(r.text) = Len(data.processes) + 1
            /\ r.text[1] = JoinComma(KeysShown(o))
            /\ \A k \in DOMAIN data.processes :
                 r.text[k + 1] = RowOf(data.processes[k], KeysShown(o))
  /\ \A k \in DOMAIN handled.outputs :
       handled.outputs[k].format = "csv" =>
         /\ handled.reports[1].processes # <<>>
         /\ handled.outputs[k].csv = to_csv(handled.reports[1], parsed_args).text

\* to_csv was called on a report without processes and raised.
C17_Witness ==
  /\ Len(handled.reports) = 1
  /\ handled.reports[1].processes = <<>>
  /\ parsed_args.output = "csv"
  /\ handled.exc.type = "ValueError"
  /\ handled.outputs = <<>>

\* C18: the text of to_json, parsed, has the processes of the input in the
\* same number and order; without advanced each has exactly the five fields
\* with the input's values, with advanced each equals the input record.
C18_JsonRoundTrip ==
  \A data \in ReportsMade : \A o \in OptionSettings :
    LET parsed == json_loads(to_json(data, o)).val.processes IN
    /\ Len(parsed) = Len(data.processes)
    /\ \A k \in DOMAIN parsed :
         IF ~o.advanced
         THEN parsed[k].val =
                [key \in {"pid", "name", "user", "cpu_percent", "memory_megabyte"}
                   |-> data.processes[k][key]]
         ELSE parsed[k].val = data.processes[k]

\* A JSON report of several processes was emitted with the full field set,
\* and it parses.
C18_Witness ==
  /\ Len(handled.outputs) = 1
  /\ handled.outputs[1].format = "json"
  /\ parsed_args.advanced
  /\ Len(handled.reports[1].processes) >= 2
  /\ Len(json_loads(handled.outputs[1].json).val.processes) >= 2

\* C19: the processes of the report are the records the engine returned,
\* rearranged: memory_megabyte never increases along the list, and records of
\* equal memory stay in descending order of PID.
C19_RankedByMemory ==
  \A k \in DOMAIN handled.reports :
    LET top == handled.reports[k].processes
        got == handled.passes[k].processes
    IN  /\ Len(top) = Len(got)
        /\ {top[j] : j \in DOMAIN top} = {got[j] : j \in DOMAIN got}
        /\ \A a, b \in DOMAIN top :
             a < b => \/ top[a].memory_megabyte > top[b].memory_megabyte
                      \/ /\ top[a].memory_megabyte = top[b].memory_megabyte
                         /\ top[a].pid > top[b].pid

\* The sort moved a record in front of a larger PID and left a tie in place.
C19_Witness ==
  /\ Len(handled.reports) = 1
  /\ handled.reports[1].processes # handled.passes[1].processes
  /\ \E a, b \in DOMAIN handled.reports[1].processes :
       /\ a < b
       /\ handled.reports[1].processes[a].memory_megabyte
            = handled.reports[1].processes[b].memory_megabyte

\* ------------------------------------------------- the interactive loop
\* The last step was the branch "collect data" of the loop and it reached
\* output_data.
LoopOutputStep ==
  /\ ~AutomationStep
  /\ handled.log # <<>>
  /\ handled.log[Len(handled.log)] = "output_data"

\* C21: whenever the loop invokes output_data, parsed_args.output is json or
\* csv and output_data does not fail on an unassigned output_content.
C21_OutputFormatRecognised ==
  LoopOutputStep => /\ parsed_args.output \in {"json", "csv"}
                    /\ handled.exc.type # "UnboundLocalError"

\* C22: at the prompt there is a line, "help visualization" and
\* "visualization help" among them, whose branch calls
\* show_visualization_help.
C22_VisualizationHelpReachable ==
  cli_pc = "prompt" =>
    \E line \in UserInputs \cup {<<"help", "visualization">>,
                                 <<"visualization", "help">>} :
      Called(Dispatch(line)) = <<"show_visualization_help">>

\* C23: total_processes_found of the report is the total-found counter of the
\* access summary of the same pass, hence at least accessible_processes +
\* permission_denied, and these two add up to the number of PIDs probed.
C23_MetadataTotals ==
  \A k \in DOMAIN handled.reports :
    LET md   == handled.reports[k].metadata
        pass == handled.passes[k]
    IN  /\ md.total_processes_found = pass.access_info.total_found_process
        /\ md.total_processes_found
             >= md.accessible_processes + md.permission_denied
        /\ md.accessible_processes + md.permission_denied = Len(pass.probed)
====
